---- MODULE Spec2Model ----
(***************************************************************************)
(* State-machine model of src/node.py: the manager main(), the per-account *)
(* AccountSession (init, get_proxies, initialize_browser_stats,            *)
(* authenticate, perform_request, ping_loop, ping, handle_ping_fail,       *)
(* handle_logout), the event-loop clock (time.time / asyncio.sleep) and    *)
(* the transport (scraper.post) as the environment.                        *)
(*                                                                         *)
(* One action is one run of a coroutine between two suspension points.     *)
(* A transport attempt and the sleep that follows it are one action: the   *)
(* session's next step is enabled at wake[s] = now + backoff.              *)
(***************************************************************************)
EXTENDS Integers, Sequences, FiniteSets, TLC

\* ------------------------------------------------------------- bounds
MaxTokens  == 2      \* most lines of tokens.txt (MainSpec)
MaxProxies == 2      \* most lines of a proxy file
MaxScore   == 1      \* largest ip_score the server reports
StartTime  == 1000   \* time.time() when main() starts
MaxTime    == 1184   \* Spec: the clock is not advanced beyond this
StartupEnd == 1100   \* MainSpec: the clock is not advanced beyond this
SlowEnd    == 1400   \* SlowSpec: the clock is not advanced beyond this
LiveEnd    == 1400   \* LiveSpec: the clock is not advanced beyond this

\* -------------------------------------------------- program constants
PING_INTERVAL   == 180
max_retries     == 3
FAIL_THRESHOLD  == 3
STARTUP_DELAY   == 2
STAGGER_DELAY   == 10
REQUEST_TIMEOUT == 30

Ids == 1..MaxTokens

VARIABLES
  now,               \* the clock read by time.time() and driving asyncio.sleep
  mainPc,            \* position of main()
  tokens,            \* main: tokens (the loaded list)
  index,             \* main: index of the for loop
  sessions,          \* main: sessions (indices appended)
  mainWake,          \* end of main's current asyncio.sleep
  staggerWaits,      \* history: how many times main slept STAGGER_DELAY
  task,              \* per session: which coroutine runs it
  pc,                \* per session: position inside that coroutine
  wake,              \* per session: time at which its pending await completes
  proxies, browser_stats, account_info, proxy_auth_status,
  status_connect, retries, last_ping_time,          \* AccountSession fields
  i,                 \* loop index of authenticate() / ping() (1-based)
  url, data,         \* arguments of the perform_request call in progress
  attempt,           \* perform_request: attempts made so far in this call
  outcome,           \* perform_request: what the latest attempt produced
  slept,             \* history: backoff slept so far inside this call
  response,          \* the local `response` of authenticate() / ping()
  plainFails,        \* history: failed heartbeats, not auth rejections, since the last success
  authFails,         \* history: auth-rejected heartbeats since the last success
  cycleStart,        \* history: when the latest executed heartbeat cycle began
  inCycle,           \* history: calls of ping() that passed the interval check and are not over
  authWins,          \* history: session-creation responses with code 0 and a uid
  iterations         \* history: iterations of ping_loop that reached the sleep of line 233

mainVars == <<mainPc, tokens, index, sessions, mainWake, staggerWaits>>
fieldVars == <<proxies, browser_stats, account_info, proxy_auth_status,
               status_connect, retries, last_ping_time>>
reqVars == <<url, data, attempt, outcome, slept, response>>
histVars == <<plainFails, authFails, cycleStart, inCycle, authWins, iterations>>
vars == <<now, mainVars, task, pc, wake, fieldVars, i, reqVars, histVars>>

\* ------------------------------------------------------ value shapes
NoKey == "<absent>"          \* dict.get() of a missing key / Python None identity
NoScore == 0 - 1             \* 'ip_score' missing from data

NoData == [kind |-> "missing", uid |-> NoKey, ip_score |-> NoScore]
NullData == [kind |-> "null", uid |-> NoKey, ip_score |-> NoScore]
Dict(uid, score) == [kind |-> "dict", uid |-> uid, ip_score |-> score]

None == [isNone |-> TRUE, code |-> 0 - 1, data |-> NoData]
Body(code, d) == [isNone |-> FALSE, code |-> code, data |-> d]
Truthy(r) == ~r.isNone

\* Bodies the session-creation endpoint may answer with (HTTP 200).
SessionBodies ==
  {Body(1, NoData), Body(0, NoData), Body(0, NullData)}
  \cup {Body(0, Dict(u, NoScore)) : u \in {NoKey, "", "abc"}}

\* Bodies the heartbeat endpoint may answer with (HTTP 200).
PingBodies ==
  {Body(1, NoData), Body(403, NoData), Body(0, NoData), Body(0, NullData)}
  \cup {Body(0, Dict(NoKey, sc)) : sc \in {NoScore} \cup (0..MaxScore)}

Endpoints == {"SESSION", "PING"}

Bodies(u) == IF u = "SESSION" THEN SessionBodies ELSE PingBodies

\* What one scraper.post can do: raise (a network error or a timeout), or
\* answer with a status code (and a JSON body when 200), after `time` units.
\* Here every request is answered at once: only the sleeps move the clock.
FullTransport ==
  [u \in Endpoints |->
     {[kind |-> k, body |-> None, time |-> 0] : k \in {"error", "http403", "http500"}}
     \cup {[kind |-> "http200", body |-> b, time |-> 0] : b \in Bodies(u)}]

\* A network that answers every request at once with HTTP 200.
BasicTransport ==
  [u \in Endpoints |->
     {[kind |-> "http200", body |-> b, time |-> 0] :
        b \in IF u = "SESSION" THEN {Body(1, NoData), Body(0, Dict("abc", NoScore))}
                               ELSE {Body(1, NoData), Body(0, Dict(NoKey, 0))}}]

\* A slow network: a heartbeat request times out (timeout=30, line 203) or
\* is answered with success, at once or just before the timeout.
SlowTransport ==
  [u \in Endpoints |->
     IF u = "SESSION"
     THEN {[kind |-> "http200", body |-> Body(0, Dict("abc", NoScore)), time |-> 0]}
     ELSE {[kind |-> "error", body |-> None, time |-> REQUEST_TIMEOUT]}
          \cup {[kind |-> "http200", body |-> Body(0, Dict(NoKey, 0)), time |-> d] :
                   d \in {0, REQUEST_TIMEOUT}}]

\* A network on which every request returns: the session is created, and a
\* heartbeat attempt gets HTTP 500, or HTTP 200 with success, with an auth
\* rejection or with a body whose data is null (line 274 raises on it).
LiveTransport ==
  [u \in Endpoints |->
     IF u = "SESSION"
     THEN {[kind |-> "http200", body |-> Body(0, Dict("abc", NoScore)), time |-> 0]}
     ELSE {[kind |-> "http500", body |-> None, time |-> 0]}
          \cup {[kind |-> "http200", body |-> b, time |-> 0] :
                   b \in {Body(0, Dict(NoKey, 0)), Body(403, NoData),
                          Body(0, NullData)}}]

EmptyInfo == [isNone |-> FALSE, uid |-> NoKey]
NoneInfo == [isNone |-> TRUE, uid |-> NoKey]

\* response.get('data', {})
GetData(r) == IF r.data.kind = "null" THEN NoneInfo
              ELSE [isNone |-> FALSE, uid |-> r.data.uid]

Pow2(n) == IF n = 0 THEN 1 ELSE IF n = 1 THEN 2 ELSE IF n = 2 THEN 4 ELSE 8

\* ---------------------------------------------------------------- Init
Init ==
  /\ now = StartTime
  /\ mainPc = "start"
  /\ tokens = <<>>
  /\ index = 0
  /\ sessions = <<>>
  /\ mainWake = StartTime
  /\ staggerWaits = 0
  /\ task = [s \in Ids |-> "none"]
  /\ pc = [s \in Ids |-> "idle"]
  /\ wake = [s \in Ids |-> StartTime]
  /\ proxies = [s \in Ids |-> <<>>]
  /\ browser_stats = [s \in Ids |-> <<>>]
  /\ account_info = [s \in Ids |-> EmptyInfo]
  /\ proxy_auth_status = [s \in Ids |-> FALSE]
  /\ status_connect = [s \in Ids |-> "NONE_CONNECTION"]
  /\ retries = [s \in Ids |-> 0]
  /\ last_ping_time = [s \in Ids |-> 0]
  /\ i = [s \in Ids |-> 0]
  /\ url = [s \in Ids |-> "SESSION"]
  /\ data = [s \in Ids |-> NoKey]
  /\ attempt = [s \in Ids |-> 0]
  /\ outcome = [s \in Ids |-> "none"]
  /\ slept = [s \in Ids |-> 0]
  /\ response = [s \in Ids |-> None]
  /\ plainFails = [s \in Ids |-> 0]
  /\ authFails = [s \in Ids |-> 0]
  /\ cycleStart = [s \in Ids |-> NoScore]
  /\ inCycle = [s \in Ids |-> 0]
  /\ authWins = [s \in Ids |-> 0]
  /\ iterations = [s \in Ids |-> 0]

\* ------------------------------------------- AccountSession, pure parts
Self(s) == [retries |-> retries[s], status_connect |-> status_connect[s],
            account_info |-> account_info[s],
            proxy_auth_status |-> proxy_auth_status[s]]

\* lines 300-305
handle_logout(self) ==
  [self EXCEPT !.status_connect = "NONE_CONNECTION",
               !.account_info = EmptyInfo,
               !.proxy_auth_status = FALSE]

\* handle_ping_fail with the two tests in the other order.
handle_ping_fail_threshold_first(self, r) ==
  LET counted == [self EXCEPT !.retries = @ + 1] IN
  IF counted.retries >= FAIL_THRESHOLD
  THEN [counted EXCEPT !.status_connect = "DISCONNECTED"]
  ELSE IF Truthy(r) /\ r.code = 403 THEN handle_logout(counted)
       ELSE counted

\* handle_ping_fail that also logs out when there is no response at all.
handle_ping_fail_logout_on_none(self, r) ==
  LET counted == [self EXCEPT !.retries = @ + 1] IN
  IF ~Truthy(r) \/ r.code = 403 THEN handle_logout(counted)
  ELSE IF counted.retries >= FAIL_THRESHOLD
       THEN [counted EXCEPT !.status_connect = "DISCONNECTED"]
       ELSE counted

\* handle_ping_fail with the threshold test written `> 3`.
handle_ping_fail_late_threshold(self, r) ==
  LET counted == [self EXCEPT !.retries = @ + 1] IN
  IF Truthy(r) /\ r.code = 403 THEN handle_logout(counted)
  ELSE IF counted.retries > FAIL_THRESHOLD
       THEN [counted EXCEPT !.status_connect = "DISCONNECTED"]
       ELSE counted

\* lines 291-298
handle_ping_fail(self, r) ==
  LET counted == [self EXCEPT !.retries = @ + 1] IN
  IF Truthy(r) /\ r.code = 403 THEN handle_logout(counted)
  ELSE IF counted.retries >= FAIL_THRESHOLD
       THEN [counted EXCEPT !.status_connect = "DISCONNECTED"]
       ELSE counted

\* ping_response that takes a successful heartbeat as proof of authentication.
ping_response_marks_authenticated(self, stat, r) ==
  LET counted == [stat EXCEPT !.ping_count = @ + 1] IN
  IF Truthy(r) /\ r.code = 0
  THEN LET ok == [self EXCEPT !.retries = 0, !.status_connect = "CONNECTED",
                              !.proxy_auth_status = TRUE]
           good == [counted EXCEPT !.successful_pings = @ + 1] IN
       IF r.data.kind = "null"
       THEN [self |-> handle_ping_fail(ok, None), stat |-> good]
       ELSE [self |-> ok,
             stat |-> [good EXCEPT !.score =
                         IF r.data.ip_score = NoScore THEN 0 ELSE r.data.ip_score]]
  ELSE [self |-> handle_ping_fail(self, r), stat |-> counted]

\* ping_response with the increment of line 266 in the failure branch only.
ping_response_counts_failures_only(self, stat, r) ==
  IF Truthy(r) /\ r.code = 0
  THEN LET ok == [self EXCEPT !.retries = 0, !.status_connect = "CONNECTED"]
           good == [stat EXCEPT !.successful_pings = @ + 1] IN
       IF r.data.kind = "null"
       THEN [self |-> handle_ping_fail(ok, None), stat |-> good]
       ELSE [self |-> ok,
             stat |-> [good EXCEPT !.score =
                         IF r.data.ip_score = NoScore THEN 0 ELSE r.data.ip_score]]
  ELSE [self |-> handle_ping_fail(self, r),
        stat |-> [stat EXCEPT !.ping_count = @ + 1]]

\* ping_response without the reset of line 269.
ping_response_keeps_retries(self, stat, r) ==
  LET counted == [stat EXCEPT !.ping_count = @ + 1] IN
  IF Truthy(r) /\ r.code = 0
  THEN LET ok == [self EXCEPT !.status_connect = "CONNECTED"]
           good == [counted EXCEPT !.successful_pings = @ + 1] IN
       IF r.data.kind = "null"
       THEN [self |-> handle_ping_fail(ok, None), stat |-> good]
       ELSE [self |-> ok,
             stat |-> [good EXCEPT !.score =
                         IF r.data.ip_score = NoScore THEN 0 ELSE r.data.ip_score]]
  ELSE [self |-> handle_ping_fail(self, r), stat |-> counted]

\* lines 266-289: what ping() does with the response to the heartbeat of one
\* proxy. A body {code: 0, data: null} raises at line 274 after the success
\* assignments, and the except clause calls handle_ping_fail(proxy, None).
ping_response(self, stat, r) ==
  LET counted == [stat EXCEPT !.ping_count = @ + 1] IN
  IF Truthy(r) /\ r.code = 0
  THEN LET ok == [self EXCEPT !.retries = 0, !.status_connect = "CONNECTED"]
           good == [counted EXCEPT !.successful_pings = @ + 1] IN
       IF r.data.kind = "null"
       THEN [self |-> handle_ping_fail(ok, None), stat |-> good]
       ELSE [self |-> ok,
             stat |-> [good EXCEPT !.score =
                         IF r.data.ip_score = NoScore THEN 0 ELSE r.data.ip_score]]
  ELSE [self |-> handle_ping_fail(self, r), stat |-> counted]

\* auth_response with the test of line 163 always taking the else branch.
auth_response_ignores_uid(self, r) ==
  IF ~Truthy(r) \/ r.code # 0 THEN [self |-> self, stop |-> FALSE]
  ELSE [self |-> [self EXCEPT !.account_info = GetData(r)], stop |-> FALSE]

\* lines 155-172: what authenticate() does with the response for one proxy.
\* stop: the loop breaks. A body {code: 0, data: null} raises at line 163
\* ('uid' in None) after account_info was assigned; the except clause logs.
auth_response(self, r) ==
  IF ~Truthy(r) \/ r.code # 0 THEN [self |-> self, stop |-> FALSE]
  ELSE LET got == [self EXCEPT !.account_info = GetData(r)] IN
       IF got.account_info.isNone THEN [self |-> got, stop |-> FALSE]
       ELSE IF got.account_info.uid # NoKey
            THEN [self |-> [got EXCEPT !.proxy_auth_status = TRUE], stop |-> TRUE]
            ELSE [self |-> got, stop |-> FALSE]

\* perform_request without the return of lines 210-211: HTTP 403 is retried
\* like any other status.
perform_request_retries_403(a, kind, body) ==
  IF kind = "http200" THEN [done |-> TRUE, ret |-> body, sleep |-> 0]
  ELSE IF kind \in {"http403", "http500"}
       THEN [done |-> a + 1 >= max_retries, ret |-> None, sleep |-> 0]
       ELSE [done |-> a + 1 >= max_retries, ret |-> None,
             sleep |-> IF a < max_retries - 1 THEN Pow2(a) ELSE 0]

\* lines 193-219: one pass of the retry loop, attempt a (0-based), given what
\* scraper.post did. done: perform_request returns; ret: what it returns;
\* sleep: the asyncio.sleep before the next pass.
perform_request(a, kind, body) ==
  IF kind = "http200" THEN [done |-> TRUE, ret |-> body, sleep |-> 0]
  ELSE IF kind = "http403" THEN [done |-> TRUE, ret |-> None, sleep |-> 0]
  ELSE IF kind = "http500"
       THEN [done |-> a + 1 >= max_retries, ret |-> None, sleep |-> 0]
       ELSE [done |-> a + 1 >= max_retries, ret |-> None,
             sleep |-> IF a < max_retries - 1 THEN Pow2(a) ELSE 0]

\* The interval check written with `<=`.
interval_not_reached_inclusive(current_time, last) ==
  current_time - last <= PING_INTERVAL

\* The interval check with the interval taken in the wrong unit.
interval_in_wrong_unit(current_time, last) ==
  current_time - last < PING_INTERVAL \div 1000

\* line 240
interval_not_reached(current_time, last) == current_time - last < PING_INTERVAL

\* initialize_browser_stats with a loop that stops one proxy short.
new_browser_stats_short(n, t) ==
  [k \in 1..(n - 1) |-> [browser_id |-> <<k - 1, t>>, ping_count |-> 0,
                         successful_pings |-> 0, score |-> 0, start_time |-> t,
                         last_ping_time |-> NoScore]]

\* lines 104-113
new_browser_stats(n, t) ==
  [k \in 1..n |-> [browser_id |-> <<k - 1, t>>, ping_count |-> 0,
                   successful_pings |-> 0, score |-> 0, start_time |-> t,
                   last_ping_time |-> NoScore]]

\* line 358: main() has no `self`; evaluating self.logger raises NameError.
self_defined_in_main == FALSE

\* --------------------------------------------------------------- main()
\* lines 343-344
MainStart ==
  /\ mainPc = "start"
  /\ mainPc' = "load_tokens"
  /\ mainWake' = now + STARTUP_DELAY
  /\ UNCHANGED <<now, tokens, index, sessions, staggerWaits, task, pc, wake,
                 fieldVars, i, reqVars, histVars>>

\* lines 347-353 (and 317-326). With no tokens main returns at line 350 and
\* the finally clause reads the unbound `sessions`: the process ends.
LoadTokens(Counts) ==
  /\ mainPc = "load_tokens"
  /\ mainWake <= now
  /\ \E n \in Counts :
       /\ tokens' = [k \in 1..n |-> k]
       /\ IF n = 0 THEN mainPc' = "crashed" /\ index' = index
                   ELSE mainPc' = "construct" /\ index' = 1
  /\ UNCHANGED <<now, sessions, mainWake, staggerWaits, task, pc, wake,
                 fieldVars, i, reqVars, histVars>>

\* lines 355-356 (and 77-89): AccountSession(token, index), then init() starts.
Construct ==
  /\ mainPc = "construct"
  /\ mainWake <= now
  /\ mainPc' = "await_init"
  /\ task' = [task EXCEPT ![index] = "init"]
  /\ pc' = [pc EXCEPT ![index] = "get_proxies"]
  /\ wake' = [wake EXCEPT ![index] = now]
  /\ proxies' = [proxies EXCEPT ![index] = <<>>]
  /\ browser_stats' = [browser_stats EXCEPT ![index] = <<>>]
  /\ account_info' = [account_info EXCEPT ![index] = EmptyInfo]
  /\ proxy_auth_status' = [proxy_auth_status EXCEPT ![index] = FALSE]
  /\ status_connect' = [status_connect EXCEPT ![index] = "NONE_CONNECTION"]
  /\ retries' = [retries EXCEPT ![index] = 0]
  /\ last_ping_time' = [last_ping_time EXCEPT ![index] = 0]
  /\ UNCHANGED <<now, tokens, index, sessions, mainWake, staggerWaits,
                 i, reqVars, histVars>>

\* lines 357-370: init() has returned. The session is appended, line 358
\* raises, the except clause of line 364 prints, and the loop goes on.
AfterInit ==
  /\ mainPc = "await_init"
  /\ task[index] \in {"loop", "failed"}
  /\ sessions' = Append(sessions, index)
  /\ IF self_defined_in_main /\ index < Len(tokens)
     THEN /\ mainWake' = now + STAGGER_DELAY
          /\ staggerWaits' = staggerWaits + 1
     ELSE UNCHANGED <<mainWake, staggerWaits>>
  /\ IF index < Len(tokens)
     THEN mainPc' = "construct" /\ index' = index + 1
     ELSE mainPc' = "idle" /\ index' = index
  /\ UNCHANGED <<now, tokens, task, pc, wake, fieldVars, i, reqVars, histVars>>

\* ------------------------------------------------------ AccountSession
\* main() runs on without suspending from the return of init() to its next
\* await (lines 357-370, 355-356): no other task runs in between.
MainRunnable ==
  \/ mainPc = "start"
  \/ mainPc \in {"load_tokens", "construct"} /\ mainWake <= now
  \/ mainPc = "await_init" /\ task[index] # "init"

Runnable(s) == ~MainRunnable /\ task[s] \in {"init", "loop"} /\ wake[s] <= now

SetSelf(s, self) ==
  /\ retries' = [retries EXCEPT ![s] = self.retries]
  /\ status_connect' = [status_connect EXCEPT ![s] = self.status_connect]
  /\ account_info' = [account_info EXCEPT ![s] = self.account_info]
  /\ proxy_auth_status' = [proxy_auth_status EXCEPT ![s] = self.proxy_auth_status]

\* ping() returns to its caller and its locals are gone. In init() (line 98)
\* start_ping_loop creates the loop task and init() returns; the task's
\* first step is ping() again. In ping_loop (line 233) the task sleeps
\* PING_INTERVAL and calls ping().
ReturnFromPing(s) ==
  /\ pc' = [pc EXCEPT ![s] = "ping"]
  /\ response' = [response EXCEPT ![s] = None]
  /\ data' = [data EXCEPT ![s] = NoKey]
  /\ IF task[s] = "init"
     THEN /\ task' = [task EXCEPT ![s] = "loop"]
          /\ UNCHANGED <<wake, iterations>>
     ELSE /\ task' = task
          /\ wake' = [wake EXCEPT ![s] = now + PING_INTERVAL]
          /\ iterations' = [iterations EXCEPT ![s] = @ + 1]

\* perform_request is entered: its locals start afresh.
CallPerformRequest(s, u, payload) ==
  /\ pc' = [pc EXCEPT ![s] = "perform_request"]
  /\ url' = [url EXCEPT ![s] = u]
  /\ data' = [data EXCEPT ![s] = payload]
  /\ attempt' = [attempt EXCEPT ![s] = 0]
  /\ slept' = [slept EXCEPT ![s] = 0]
  /\ outcome' = [outcome EXCEPT ![s] = "none"]

\* What a proxy file can hold: no file at all (-1), or n lines.
ProxyLoads == {0 - 1} \cup (0..MaxProxies)

\* get_proxies without the raise of line 141.
get_proxies_swallows(n) == FALSE

\* lines 130-141: FileNotFoundError, or ValueError on an empty list; the
\* except clause logs and raises again.
get_proxies_raises(n) == n <= 0

\* lines 94, 115-141 (and 99-100 when it raises)
GetProxies(s) ==
  /\ Runnable(s) /\ pc[s] = "get_proxies"
  /\ \E n \in ProxyLoads :
       IF get_proxies_raises(n)
       THEN /\ proxies' = [proxies EXCEPT ![s] = <<>>]
            /\ task' = [task EXCEPT ![s] = "failed"]
            /\ pc' = [pc EXCEPT ![s] = "idle"]
       ELSE /\ proxies' = [proxies EXCEPT ![s] = [k \in 1..(IF n < 0 THEN 0 ELSE n) |-> k]]
            /\ task' = task
            /\ pc' = [pc EXCEPT ![s] = "initialize_browser_stats"]
  /\ UNCHANGED <<now, mainVars, wake, browser_stats, account_info,
                 proxy_auth_status, status_connect, retries, last_ping_time,
                 i, reqVars, histVars>>

\* lines 95, 102-113
InitializeBrowserStats(s) ==
  /\ Runnable(s) /\ pc[s] = "initialize_browser_stats"
  /\ browser_stats' = [browser_stats EXCEPT ![s] =
                         new_browser_stats(Len(proxies[s]), now)]
  /\ pc' = [pc EXCEPT ![s] = "authenticate"]
  /\ i' = [i EXCEPT ![s] = 1]
  /\ UNCHANGED <<now, mainVars, task, wake, proxies, account_info,
                 proxy_auth_status, status_connect, retries, last_ping_time,
                 reqVars, histVars>>

\* lines 145-154: the head of authenticate()'s loop, up to the request.
\* get_ip_address (lines 64-74) changes no state and is not timed here.
\* When the loop is over, init() goes on to ping() (line 97).
Authenticate(s) ==
  /\ Runnable(s) /\ pc[s] = "authenticate"
  /\ IF i[s] > Len(proxies[s])
     THEN /\ pc' = [pc EXCEPT ![s] = "ping"]
          /\ response' = [response EXCEPT ![s] = None]
          /\ UNCHANGED <<i, url, data, attempt, slept, outcome>>
     ELSE IF proxy_auth_status[s]
     THEN /\ i' = [i EXCEPT ![s] = @ + 1]
          /\ UNCHANGED <<pc, url, data, attempt, slept, outcome, response>>
     ELSE /\ CallPerformRequest(s, "SESSION", NoKey)
          /\ UNCHANGED <<i, response>>
  /\ UNCHANGED <<now, mainVars, task, wake, fieldVars, histVars>>

\* lines 193-219: one transport attempt (it takes r.time) and the backoff
\* after it.
Attempt(s, transport) ==
  /\ Runnable(s) /\ pc[s] = "perform_request"
  /\ \E r \in transport[url[s]] :
       LET step == perform_request(attempt[s], r.kind, r.body) IN
       /\ attempt' = [attempt EXCEPT ![s] = @ + 1]
       /\ outcome' = [outcome EXCEPT ![s] = r.kind]
       /\ slept' = [slept EXCEPT ![s] = @ + step.sleep]
       /\ wake' = [wake EXCEPT ![s] = now + r.time + step.sleep]
       /\ IF step.done
          THEN /\ response' = [response EXCEPT ![s] = step.ret]
               /\ pc' = [pc EXCEPT ![s] = IF url[s] = "SESSION"
                                           THEN "auth_response" ELSE "ping_response"]
          ELSE UNCHANGED <<response, pc>>
  /\ UNCHANGED <<now, mainVars, task, fieldVars, i, url, data, histVars>>

\* lines 155-172; after the break of line 167 init() goes on to ping().
AuthResponse(s) ==
  /\ Runnable(s) /\ pc[s] = "auth_response"
  /\ LET res == auth_response(Self(s), response[s]) IN
       /\ SetSelf(s, res.self)
       /\ IF res.stop
          THEN /\ pc' = [pc EXCEPT ![s] = "ping"]
               /\ response' = [response EXCEPT ![s] = None]
               /\ i' = i
          ELSE /\ pc' = [pc EXCEPT ![s] = "authenticate"]
               /\ response' = response
               /\ i' = [i EXCEPT ![s] = @ + 1]
  /\ attempt' = [attempt EXCEPT ![s] = 0]
  /\ slept' = [slept EXCEPT ![s] = 0]
  /\ outcome' = [outcome EXCEPT ![s] = "none"]
  /\ authWins' = [authWins EXCEPT ![s] =
                    IF /\ Truthy(response[s]) /\ response[s].code = 0
                       /\ response[s].data.kind = "dict"
                       /\ response[s].data.uid # NoKey
                    THEN @ + 1 ELSE @]
  /\ UNCHANGED <<now, mainVars, task, wake, proxies, browser_stats,
                 last_ping_time, url, data, plainFails, authFails,
                 cycleStart, inCycle, iterations>>

\* ping() entered by a second task while a cycle of the session is running
\* (a loop task created before the ping() of init() was awaited).
PingReentered(s) ==
  /\ Runnable(s)
  /\ \/ pc[s] = "ping"
     \/ pc[s] = "ping_proxy" /\ ~interval_not_reached(now, last_ping_time[s])
  /\ IF interval_not_reached(now, last_ping_time[s])
     THEN /\ ReturnFromPing(s)
          /\ UNCHANGED <<last_ping_time, i, cycleStart, inCycle>>
     ELSE /\ last_ping_time' = [last_ping_time EXCEPT ![s] = now]
          /\ cycleStart' = [cycleStart EXCEPT ![s] = now]
          /\ inCycle' = [inCycle EXCEPT ![s] = @ + 1]
          /\ pc' = [pc EXCEPT ![s] = "ping_proxy"]
          /\ i' = [i EXCEPT ![s] = 1]
          /\ UNCHANGED <<task, wake, response, data, iterations>>
  /\ UNCHANGED <<now, mainVars, proxies, browser_stats, account_info,
                 proxy_auth_status, status_connect, retries,
                 url, attempt, outcome, slept, plainFails, authFails, authWins>>

\* lines 237-244: the interval check at the start of ping().
Ping(s) ==
  /\ Runnable(s) /\ pc[s] = "ping"
  /\ IF interval_not_reached(now, last_ping_time[s])
     THEN /\ ReturnFromPing(s)
          /\ UNCHANGED <<last_ping_time, i, cycleStart, inCycle>>
     ELSE /\ last_ping_time' = [last_ping_time EXCEPT ![s] = now]
          /\ cycleStart' = [cycleStart EXCEPT ![s] = now]
          /\ inCycle' = [inCycle EXCEPT ![s] = @ + 1]
          /\ pc' = [pc EXCEPT ![s] = "ping_proxy"]
          /\ i' = [i EXCEPT ![s] = 1]
          /\ UNCHANGED <<task, wake, response, data, iterations>>
  /\ UNCHANGED <<now, mainVars, proxies, browser_stats, account_info,
                 proxy_auth_status, status_connect, retries,
                 url, attempt, outcome, slept, plainFails, authFails, authWins>>

\* lines 246-265: the head of ping()'s loop over the proxies, up to the
\* request. current_time equals last_ping_time throughout an executed cycle.
\* With account_info None (line 162 stored a null data), line 256 raises and
\* the except clause of line 287 handles the failure without any request.
PingProxy(s) ==
  /\ Runnable(s) /\ pc[s] = "ping_proxy"
  /\ IF i[s] > Len(proxies[s])
     THEN /\ ReturnFromPing(s)
          /\ inCycle' = [inCycle EXCEPT ![s] = @ - 1]
          /\ UNCHANGED <<browser_stats, account_info, proxy_auth_status,
                         status_connect, retries, i, url, attempt, slept,
                         outcome, plainFails, authFails, cycleStart, authWins>>
     ELSE IF i[s] > Len(browser_stats[s])
     THEN /\ i' = [i EXCEPT ![s] = @ + 1]
          /\ UNCHANGED <<task, pc, wake, browser_stats, account_info,
                         proxy_auth_status, status_connect, retries, url, data,
                         attempt, slept, outcome, response, histVars>>
     ELSE /\ browser_stats' = [browser_stats EXCEPT
                                 ![s][i[s]].last_ping_time = last_ping_time[s]]
          /\ IF account_info[s].isNone
             THEN /\ SetSelf(s, handle_ping_fail(Self(s), None))
                  /\ plainFails' = [plainFails EXCEPT ![s] = @ + 1]
                  /\ i' = [i EXCEPT ![s] = @ + 1]
                  /\ UNCHANGED <<task, pc, wake, url, data, attempt, slept,
                                 outcome, response, authFails, cycleStart,
                                 inCycle, authWins, iterations>>
             ELSE /\ CallPerformRequest(s, "PING", account_info[s].uid)
                  /\ UNCHANGED <<task, wake, account_info, proxy_auth_status,
                                 status_connect, retries, i, response, histVars>>
  /\ UNCHANGED <<now, mainVars, proxies, last_ping_time>>

\* lines 266-289: the response to the heartbeat of proxy i[s] is handled.
PingResponse(s) ==
  /\ Runnable(s) /\ pc[s] = "ping_response"
  /\ LET r == response[s]
         res == ping_response(Self(s), browser_stats[s][i[s]], r)
         success == Truthy(r) /\ r.code = 0
         raised == success /\ r.data.kind = "null"
         rejected == Truthy(r) /\ r.code = 403
     IN
       /\ SetSelf(s, res.self)
       /\ browser_stats' = [browser_stats EXCEPT ![s][i[s]] = res.stat]
       /\ plainFails' = [plainFails EXCEPT ![s] =
                           IF success THEN (IF raised THEN 1 ELSE 0)
                           ELSE IF rejected THEN @ ELSE @ + 1]
       /\ authFails' = [authFails EXCEPT ![s] =
                           IF success THEN 0 ELSE IF rejected THEN @ + 1 ELSE @]
  /\ UNCHANGED <<cycleStart, inCycle, authWins, iterations>>
  /\ pc' = [pc EXCEPT ![s] = "ping_proxy"]
  /\ i' = [i EXCEPT ![s] = @ + 1]
  /\ attempt' = [attempt EXCEPT ![s] = 0]
  /\ slept' = [slept EXCEPT ![s] = 0]
  /\ outcome' = [outcome EXCEPT ![s] = "none"]
  /\ UNCHANGED <<now, mainVars, task, wake, proxies, last_ping_time,
                 url, data, response>>

\* ------------------------------------------------------ the event loop
Timers ==
  {wake[s] : s \in {x \in Ids : task[x] \in {"init", "loop"}}}
  \cup (IF mainPc \in {"load_tokens", "construct"} THEN {mainWake} ELSE {})

Earliest(S) == CHOOSE t \in S : \A u \in S : t <= u

\* No coroutine can run: the loop waits for the earliest timer.
AdvanceTime(limit) ==
  /\ ~MainRunnable
  /\ \A s \in Ids : ~Runnable(s)
  /\ Timers # {}
  /\ Earliest(Timers) <= limit
  /\ now' = Earliest(Timers)
  /\ UNCHANGED <<mainVars, task, pc, wake, fieldVars, i, reqVars, histVars>>

SessionStep(s, transport) ==
  \/ GetProxies(s)
  \/ InitializeBrowserStats(s)
  \/ Authenticate(s)
  \/ Attempt(s, transport)
  \/ AuthResponse(s)
  \/ Ping(s)
  \/ PingProxy(s)
  \/ PingResponse(s)

MainStep(Counts) == MainStart \/ LoadTokens(Counts) \/ Construct \/ AfterInit

\* One account, every transport outcome.
Next ==
  \/ MainStep(0..1)
  \/ \E s \in Ids : SessionStep(s, FullTransport)
  \/ AdvanceTime(MaxTime)

Spec == Init /\ [][Next]_vars

\* Up to MaxTokens accounts, a network that always answers, followed
\* through start-up (before the second heartbeat cycle of any session).
MainNext ==
  \/ MainStep(0..MaxTokens)
  \/ \E s \in Ids : SessionStep(s, BasicTransport)
  \/ AdvanceTime(StartupEnd)

MainSpec == Init /\ [][MainNext]_vars

\* One account on a slow network: a heartbeat cycle can last longer than
\* PING_INTERVAL.
SlowNext ==
  \/ MainStep(0..1)
  \/ \E s \in Ids : SessionStep(s, SlowTransport)
  \/ AdvanceTime(SlowEnd)

SlowSpec == Init /\ [][SlowNext]_vars

\* One account whose requests all return, every coroutine and timer of the
\* event loop getting its turn.
LiveNext ==
  \/ MainStep(0..1)
  \/ \E s \in Ids : SessionStep(s, LiveTransport)
  \/ AdvanceTime(LiveEnd)

LiveSpec ==
  /\ Init /\ [][LiveNext]_vars
  /\ WF_vars(MainStep(0..1))
  /\ \A s \in Ids : WF_vars(SessionStep(s, LiveTransport))
  /\ WF_vars(AdvanceTime(LiveEnd))

\* =============================================================== claims
HeartbeatHandled(s) == pc[s] = "ping_response" /\ pc'[s] = "ping_proxy"
InitReturned(s) == task[s] \in {"loop", "failed"}
HeartbeatInFlight(s) == pc[s] = "perform_request" /\ url[s] = "PING"

\* C1: a session's state is Disconnected only when at least 3 failed
\* heartbeats that were not auth rejections have occurred since its last
\* successful heartbeat (or its start), and after exactly 3 unbroken failures,
\* none of them an auth rejection, the state is Disconnected.
C1_DisconnectedOnlyAfterThreePlainFailures ==
  \A s \in Ids :
    /\ status_connect[s] = "DISCONNECTED" => plainFails[s] >= 3
    /\ (plainFails[s] = 3 /\ authFails[s] = 0) => status_connect[s] = "DISCONNECTED"

\* C2: the step that handles a failed heartbeat whose response carries code
\* 403 ends with an empty identity, the authenticated flag false and state
\* NotConnected (so not Disconnected), whatever the counter and state before.
C2_AuthRejectionLogsOut ==
  [][\A s \in Ids :
       (HeartbeatHandled(s) /\ Truthy(response[s]) /\ response[s].code = 403)
       => /\ account_info'[s] = EmptyInfo
          /\ ~proxy_auth_status'[s]
          /\ status_connect'[s] = "NONE_CONNECTION"]_vars

\* C2 witness: an auth rejection was handled when the counter stood at 3 or
\* more (and the state, therefore, at Disconnected).
C2_Witness ==
  \E s \in Ids :
    /\ pc[s] = "ping_proxy" /\ i[s] > 1
    /\ Truthy(response[s]) /\ response[s].code = 403
    /\ retries[s] >= 4
    /\ status_connect[s] = "NONE_CONNECTION"
    /\ account_info[s] = EmptyInfo

\* C3: the step that handles a heartbeat response with code 0 and ip_score sc
\* for proxy i leaves consecutiveFailures = 0 and state = Connected, record i
\* with successful_pings one higher and score = sc, and every other record
\* as it was.
C3_SuccessfulHeartbeat ==
  [][\A s \in Ids :
       (/\ HeartbeatHandled(s)
        /\ Truthy(response[s]) /\ response[s].code = 0
        /\ response[s].data.kind = "dict"
        /\ response[s].data.ip_score # NoScore)
       => /\ retries'[s] = 0
          /\ status_connect'[s] = "CONNECTED"
          /\ Len(browser_stats'[s]) = Len(browser_stats[s])
          /\ browser_stats'[s][i[s]].successful_pings
               = browser_stats[s][i[s]].successful_pings + 1
          /\ browser_stats'[s][i[s]].score = response[s].data.ip_score
          /\ \A k \in 1..Len(browser_stats[s]) :
               k # i[s] => browser_stats'[s][k] = browser_stats[s][k]]_vars

\* C3 witness: the second proxy's heartbeat has just succeeded with score 1
\* after three failed heartbeats in a row (first proxy twice, second once).
C3_Witness ==
  \E s \in Ids :
    /\ pc[s] = "ping_proxy" /\ i[s] = 3
    /\ Truthy(response[s]) /\ response[s].code = 0
    /\ response[s].data.ip_score = 1
    /\ retries[s] = 0 /\ status_connect[s] = "CONNECTED"
    /\ browser_stats[s][1].ping_count = 2
    /\ browser_stats[s][1].successful_pings = 0
    /\ browser_stats[s][2].ping_count = 2
    /\ browser_stats[s][2].successful_pings = 1
    /\ browser_stats[s][2].score = 1

\* C4: a call of ping() made less than PING_INTERVAL after the start of the
\* previous executed cycle enters no cycle (sends no request) and changes no
\* session field.
C4_SecondCallWithinIntervalIsNoOp ==
  [][\A s \in Ids :
       (/\ pc[s] = "ping"
        /\ cycleStart[s] # NoScore
        /\ now - cycleStart[s] < PING_INTERVAL)
       => /\ pc'[s] = "ping"
          /\ cycleStart'[s] = cycleStart[s]
          /\ last_ping_time'[s] = last_ping_time[s]
          /\ retries'[s] = retries[s]
          /\ status_connect'[s] = status_connect[s]
          /\ browser_stats'[s] = browser_stats[s]
          /\ account_info'[s] = account_info[s]
          /\ proxy_auth_status'[s] = proxy_auth_status[s]]_vars

\* C4 witness: the loop task's first call of ping(), right after the cycle of
\* init(), was skipped: the task sleeps and the only executed cycle is still
\* the one of init().
C4_Witness ==
  \E s \in Ids :
    /\ task[s] = "loop" /\ pc[s] = "ping"
    /\ wake[s] > now
    /\ cycleStart[s] # NoScore
    /\ now - cycleStart[s] < PING_INTERVAL
    /\ browser_stats[s][1].ping_count = 1

\* C5: inside perform_request every failed attempt that is neither the last
\* nor a 403 is followed by a wait of 2^attempt, there is no wait after the
\* final attempt, and a call that succeeds on its third attempt has waited
\* exactly 1 + 2.
C5_BackoffAfterEveryFailedAttempt ==
  [][\A s \in Ids :
       (pc[s] = "perform_request" /\ attempt'[s] = attempt[s] + 1)
       => /\ IF pc'[s] = "perform_request"
             THEN /\ slept'[s] = slept[s] + Pow2(attempt[s])
                  /\ wake'[s] = now + Pow2(attempt[s])
             ELSE slept'[s] = slept[s]
          /\ (pc'[s] # "perform_request" /\ attempt'[s] = 3 /\ Truthy(response'[s]))
             => slept'[s] = 1 + 2]_vars

\* C6: when the manager reaches its idle wait it has slept the stagger delay
\* exactly N - 1 times for N loaded credentials.
C6_StaggerBetweenSessions ==
  mainPc = "idle" => staggerWaits = Len(tokens) - 1

\* C7: once init() of a session has returned, and ever after, it has as many
\* heartbeat records as egress points, and no heartbeat step adds or removes
\* a record.
C7_RecordsMatchProxies ==
  /\ [](\A s \in Ids :
          InitReturned(s) => Len(browser_stats[s]) = Len(proxies[s]))
  /\ [][\A s \in Ids :
          (pc[s] \in {"ping", "ping_proxy", "ping_response"} \/ HeartbeatInFlight(s))
          => /\ Len(browser_stats'[s]) = Len(browser_stats[s])
             /\ proxies'[s] = proxies[s]]_vars

\* C7 witness: a session with MaxProxies egress points went through the
\* cycle of init() and a cycle of its loop.
C7_Witness ==
  \E s \in Ids :
    /\ task[s] = "loop"
    /\ Len(proxies[s]) = MaxProxies
    /\ Len(browser_stats[s]) = MaxProxies
    /\ \A k \in 1..MaxProxies : browser_stats[s][k].ping_count = 2

\* C8: a failure inside init() of session k stays inside that session: the
\* process does not end, a session whose egress points did not load starts no
\* heartbeat loop and sends nothing, the manager or the init() it awaits can
\* always take its next step, and at its idle wait the manager has
\* constructed and initialised every session.
C8_InitFailureIsAbsorbed ==
  /\ mainPc = "crashed" => Len(tokens) = 0
  /\ \A k \in Ids :
       (InitReturned(k) /\ Len(proxies[k]) = 0)
       => /\ task[k] = "failed"
          /\ cycleStart[k] = NoScore
          /\ browser_stats[k] = <<>>
  /\ mainPc = "construct" => ENABLED Construct
  /\ mainPc = "await_init"
     => ENABLED (AfterInit \/ SessionStep(index, BasicTransport))
  /\ mainPc = "idle"
     => /\ sessions = [k \in 1..Len(tokens) |-> k]
        /\ \A k \in 1..Len(tokens) : InitReturned(k)

\* C8 witness: the manager idles after a first session whose egress points
\* did not load and a second one that authenticated and whose first
\* heartbeat failed.
C8_Witness ==
  /\ mainPc = "idle" /\ Len(tokens) = 2
  /\ task[1] = "failed"
  /\ task[2] = "loop" /\ proxy_auth_status[2] /\ retries[2] >= 1

\* C9: no heartbeat request is issued by an unauthenticated session: every
\* heartbeat request in flight comes from an authenticated session and
\* carries an identity (an unauthenticated session has none: account_info
\* is {} and the payload's id is absent).
C9_NoHeartbeatWhileUnauthenticated ==
  \A s \in Ids :
    HeartbeatInFlight(s) => proxy_auth_status[s] /\ data[s] # NoKey

\* C10: the authenticated flag is set only by the handling of a
\* session-creation response with code 0 and a present, non-empty data.uid.
C10_AuthenticatedOnlyOnUid ==
  [][\A s \in Ids :
       (~proxy_auth_status[s] /\ proxy_auth_status'[s])
       => /\ pc[s] = "auth_response"
          /\ Truthy(response[s]) /\ response[s].code = 0
          /\ response[s].data.kind = "dict"
          /\ response[s].data.uid \notin {NoKey, ""}]_vars

CycleInProgress(s) ==
  pc[s] \in {"ping_proxy", "ping_response"} \/ HeartbeatInFlight(s)

\* C11: within one session at most one heartbeat cycle is in progress at any
\* time: a cycle is in progress exactly from the step that passes the
\* interval check to the step that ends the loop over the egress points, and
\* no call of ping() (from init() or from ping_loop) passes the interval check
\* while one is in progress, also when the cycle outlasts PING_INTERVAL.
C11_CyclesNeverOverlap ==
  /\ [](\A s \in Ids :
          /\ inCycle[s] \in {0, 1}
          /\ inCycle[s] = 1 <=> CycleInProgress(s))
  /\ [][\A s \in Ids :
          last_ping_time'[s] # last_ping_time[s]
          => inCycle[s] = 0 /\ inCycle'[s] = 1]_vars

\* C11 witness: a cycle is in progress at its last egress point, it has
\* lasted PING_INTERVAL or more (a call of ping() made now would pass the
\* interval check), and it is the only one in progress.
C11_Witness ==
  \E s \in Ids :
    /\ inCycle[s] = 1 /\ pc[s] = "ping_response"
    /\ i[s] = Len(proxies[s])
    /\ ~interval_not_reached(now, last_ping_time[s])

AttemptMade(s) == pc[s] = "perform_request" /\ attempt'[s] = attempt[s] + 1

\* C12: a call of perform_request makes at most 3 transport attempts; an
\* attempt answered with HTTP 403 ends the call at once with no response and
\* no backoff; after 3 failed attempts the call returns no response.
C12_AtMostThreeAttempts ==
  /\ [](\A s \in Ids : attempt[s] <= 3)
  /\ [][\A s \in Ids :
          AttemptMade(s)
          => /\ pc'[s] = "perform_request" => attempt'[s] < 3
             /\ outcome'[s] = "http403"
                => /\ pc'[s] # "perform_request"
                   /\ response'[s] = None
                   /\ slept'[s] = slept[s]
                   /\ wake'[s] = now
             /\ (attempt'[s] = 3 /\ outcome'[s] # "http200")
                => /\ pc'[s] # "perform_request"
                   /\ response'[s] = None]_vars

\* C12 witness: a heartbeat call whose first attempt raised and whose second
\* was answered with HTTP 403 has returned no response after 2 attempts and
\* the one backoff of the first.
C12_Witness ==
  \E s \in Ids :
    /\ pc[s] = "ping_response"
    /\ outcome[s] = "http403" /\ attempt[s] = 2 /\ slept[s] = 1
    /\ response[s] = None

HasSucceeded(s) ==
  \E k \in 1..Len(browser_stats[s]) : browser_stats[s][k].successful_pings > 0

\* C13 (as claimed): whenever the session's state is Connected, its most
\* recent completed heartbeat attempt succeeded: the step that completes a
\* heartbeat attempt which did not get code 0 never leaves the state at
\* Connected.
C13_ConnectedMeansLastHeartbeatSucceeded ==
  [][\A s \in Ids :
       (HeartbeatHandled(s) /\ ~(Truthy(response[s]) /\ response[s].code = 0))
       => status_connect'[s] # "CONNECTED"]_vars

\* C13 (amended): whenever the session's state is Connected, a heartbeat of
\* the session has succeeded and, since the most recent success, fewer than
\* 3 heartbeats have failed and none of them was an auth rejection.
C13_ConnectedMeansFewerThanThreeFailures ==
  \A s \in Ids :
    status_connect[s] = "CONNECTED"
    => /\ HasSucceeded(s)
       /\ authFails[s] = 0
       /\ plainFails[s] < 3
       /\ retries[s] = plainFails[s]

\* C13 witness: a session is still Connected after two failed heartbeats
\* since its last success.
C13_Witness ==
  \E s \in Ids :
    /\ status_connect[s] = "CONNECTED"
    /\ HasSucceeded(s)
    /\ plainFails[s] = 2 /\ retries[s] = 2

\* C14: the step that handles a failed heartbeat adds exactly 1 to
\* consecutiveFailures when the failure is not an auth rejection, and leaves
\* consecutiveFailures unchanged when the response carries code 403.
C14_AuthRejectionNotCounted ==
  [][\A s \in Ids :
       (HeartbeatHandled(s) /\ ~(Truthy(response[s]) /\ response[s].code = 0))
       => retries'[s] = IF Truthy(response[s]) /\ response[s].code = 403
                        THEN retries[s]
                        ELSE retries[s] + 1]_vars

LeavesDisconnected(s) ==
  status_connect[s] = "DISCONNECTED" /\ status_connect'[s] # "DISCONNECTED"

\* C15 (as claimed): a session whose state is Disconnected stays Disconnected
\* through every step but the handling of a successful heartbeat; no failed
\* heartbeat of any kind and no skipped cycle changes it.
C15_DisconnectedUntilSuccess ==
  [][\A s \in Ids :
       LeavesDisconnected(s)
       => /\ HeartbeatHandled(s)
          /\ Truthy(response[s]) /\ response[s].code = 0]_vars

\* C15 (amended): a session whose state is Disconnected stays Disconnected
\* through every step but the handling of a heartbeat response with code 0,
\* which sets Connected, or with code 403 (an auth rejection), which sets
\* NotConnected; no other failed heartbeat and no skipped cycle changes it.
C15_DisconnectedUntilSuccessOrRejection ==
  [][\A s \in Ids :
       LeavesDisconnected(s)
       => /\ HeartbeatHandled(s)
          /\ Truthy(response[s])
          /\ \/ response[s].code = 0 /\ status_connect'[s] = "CONNECTED"
             \/ response[s].code = 403 /\ status_connect'[s] = "NONE_CONNECTION"]_vars

\* C15 witness: a Disconnected session has had one more heartbeat fail with
\* no response and is still Disconnected.
C15_Witness ==
  \E s \in Ids :
    /\ pc[s] = "ping_proxy" /\ i[s] > 1
    /\ status_connect[s] = "DISCONNECTED"
    /\ retries[s] = 4 /\ plainFails[s] = 4
    /\ ~Truthy(response[s])

SessionRequestInFlight(s) == pc[s] = "perform_request" /\ url[s] = "SESSION"

InAuthenticate(s) ==
  pc[s] \in {"authenticate", "auth_response"} \/ SessionRequestInFlight(s)

\* C16: authenticate() issues its session-creation requests one egress point
\* at a time in the loaded order, each egress point at most once, and none
\* after the first one that succeeds: at most one session-creation request
\* of a session succeeds and no request is in flight after it.
C16_AuthenticateInOrderUntilFirstSuccess ==
  /\ [](\A s \in Ids :
          /\ authWins[s] <= 1
          /\ SessionRequestInFlight(s)
             => /\ authWins[s] = 0
                /\ ~proxy_auth_status[s]
                /\ i[s] \in 1..Len(proxies[s]))
  /\ [][\A s \in Ids :
          /\ (InAuthenticate(s) /\ InAuthenticate(s)') => i'[s] >= i[s]
          /\ (pc[s] = "auth_response" /\ pc'[s] = "authenticate")
             => i'[s] = i[s] + 1
          /\ (pc[s] = "authenticate" /\ pc'[s] = "perform_request")
             => url'[s] = "SESSION" /\ i'[s] = i[s]]_vars

\* C16 witness: of two egress points the first authenticated the session, and
\* init() went on to its first heartbeat cycle without a request for the
\* second.
C16_Witness ==
  \E s \in Ids :
    /\ task[s] = "init" /\ pc[s] = "ping"
    /\ Len(proxies[s]) = 2
    /\ authWins[s] = 1 /\ proxy_auth_status[s]
    /\ i[s] = 1

LoopSleeps(s) == task[s] = "loop" /\ pc[s] = "ping" /\ iterations[s] >= 1

\* C17: the heartbeat loop of a session whose egress points loaded never
\* stops: whenever the loop task sleeps and its timer falls within the
\* horizon an executed cycle follows, whatever the state and whatever the
\* cycles before did; an executed cycle that fits in the horizon is followed
\* by the next sleep; and no call of ping() after the first iteration of the
\* loop returns from the interval check.
C17_LoopNeverStops ==
  /\ \A s \in Ids :
       (LoopSleeps(s) /\ wake[s] <= LiveEnd) ~> (inCycle[s] = 1)
  /\ \A s \in Ids :
       (inCycle[s] = 1 /\ cycleStart[s] + 3 * Len(proxies[s]) <= LiveEnd)
       ~> (LoopSleeps(s) /\ inCycle[s] = 0)
  /\ [][\A s \in Ids :
          (LoopSleeps(s) /\ iterations'[s] # iterations[s]) => inCycle'[s] = 1]_vars

\* C17 witness: in its third iteration or later the loop task has passed the
\* interval check and starts a cycle of a session that was already
\* Disconnected.
C17_Witness ==
  \E s \in Ids :
    /\ task[s] = "loop" /\ iterations[s] >= 2
    /\ inCycle[s] = 1 /\ pc[s] = "ping_proxy" /\ i[s] = 1
    /\ status_connect[s] = "DISCONNECTED"
    /\ cycleStart[s] = now

\* C18: authenticate() runs once per session, entered from init() only, and
\* outside it no step sets the authenticated flag or stores an identity: a
\* session logged out by an auth rejection is never authenticated again,
\* whatever its later heartbeats get.
C18_NoReauthentication ==
  [][\A s \in Ids :
       /\ (~InAuthenticate(s) /\ InAuthenticate(s)')
          => task[s] = "init" /\ pc[s] = "initialize_browser_stats"
       /\ ~InAuthenticate(s)
          => /\ ~proxy_auth_status[s] => ~proxy_auth_status'[s]
             /\ account_info'[s] \in {account_info[s], EmptyInfo}]_vars

\* C18 witness: a session that had authenticated was logged out by an auth
\* rejection, a later heartbeat succeeded, and the session is still
\* unauthenticated with no identity.
C18_Witness ==
  \E s \in Ids :
    /\ authWins[s] = 1
    /\ ~proxy_auth_status[s] /\ account_info[s] = EmptyInfo
    /\ pc[s] = "ping_proxy" /\ i[s] > 1
    /\ Truthy(response[s]) /\ response[s].code = 0
    /\ status_connect[s] = "CONNECTED"

\* C19: whenever a session's state is Connected the session is
\* authenticated: the authenticated flag is true and an identity is present.
C19_ConnectedImpliesAuthenticated ==
  \A s \in Ids :
    status_connect[s] = "CONNECTED"
    => /\ proxy_auth_status[s]
       /\ ~account_info[s].isNone
       /\ account_info[s].uid # NoKey

\* C20: for every heartbeat record of every session 0 <= successfulPings <=
\* pingCount; neither counter ever decreases; and pingCount grows by exactly
\* 1 in the step that ends a heartbeat request for that egress point
\* (succeeded, failed or without response), and in no other step.
C20_CountersConsistent ==
  /\ [](\A s \in Ids : \A k \in 1..Len(browser_stats[s]) :
          /\ 0 <= browser_stats[s][k].successful_pings
          /\ browser_stats[s][k].successful_pings <= browser_stats[s][k].ping_count)
  /\ [][\A s \in Ids : \A k \in 1..Len(browser_stats[s]) :
          /\ k <= Len(browser_stats'[s])
          /\ browser_stats'[s][k].successful_pings
               \in {browser_stats[s][k].successful_pings,
                    browser_stats[s][k].successful_pings + 1}
          /\ browser_stats'[s][k].ping_count =
               IF HeartbeatHandled(s) /\ k = i[s]
               THEN browser_stats[s][k].ping_count + 1
               ELSE browser_stats[s][k].ping_count]_vars

\* C20 witness: two heartbeat requests were made for the first egress point,
\* the first succeeded and the second returned no response: pingCount is 2
\* and successfulPings 1.
C20_Witness ==
  \E s \in Ids :
    /\ pc[s] = "ping_proxy" /\ i[s] = 2
    /\ ~Truthy(response[s])
    /\ browser_stats[s][1].ping_count = 2
    /\ browser_stats[s][1].successful_pings = 1

====
